---- MODULE Spec2Model ----
(***************************************************************************)
(* Response resolution helpers of typespec-azure (src/unnamed/part_000):   *)
(* getAllProperties, filterModelProperties, filterResponseModels,          *)
(* getHttpMetadata, getSuccessResponse, getResultModelWithProperty and     *)
(* getOperationResponse, over a frozen TypeSpec type graph.                *)
(***************************************************************************)
EXTENDS Integers, Sequences, FiniteSets, TLC

(* ------------------------------ bounds --------------------------------- *)
\* object types of a type graph, and so the depth of an inheritance chain
NumModels == 3
\* calls of getOperationResponse per operation
MaxCalls == 1
\* entries the diagnostic sink is followed up to
MaxDiagnostics == 3
\* frames the call stack of the runtime holds
StackLimit == 5

(* ------------------------- JavaScript values --------------------------- *)
\* `undefined` where a Model is expected (baseModel, Model | undefined)
NoModel == 0
\* `undefined` where an array, a map or a tuple is expected
Undefined == [defined |-> FALSE]
Some(v) == [defined |-> TRUE, value |-> v]

\* String.prototype.startsWith on strings kept as sequences of characters
StartsWith(s, prefix) ==
  /\ Len(s) >= Len(prefix)
  /\ SubSeq(s, 1, Len(prefix)) = prefix

(* ----------------------------- type graph ------------------------------ *)
StringLit(chars) == [kind |-> "String", value |-> chars, num |-> 0]
NumberLit(n) == [kind |-> "Number", value |-> <<>>, num |-> n]
\* a property type that is no literal (a scalar, a union of literals, ...)
OtherType == [kind |-> "Scalar", value |-> <<>>, num |-> 0]

ModelProperty(owner, name, type, statusCode) ==
  [name |-> name, model |-> owner, type |-> type, statusCode |-> statusCode]

ModelType(m) == [kind |-> "Model", model |-> m, members |-> <<>>]
UnionType(variants) == [kind |-> "Union", model |-> NoModel, members |-> variants]
TupleType(values) == [kind |-> "Tuple", model |-> NoModel, members |-> values]
ScalarType == [kind |-> "Scalar", model |-> NoModel, members |-> <<>>]

\* program     : the frozen type graph (models, operations, annotations)
\* engine      : the JavaScript engine the compiler runs on
\* diagnostics : the diagnostic sink of the program, append-only
\* calls       : per operation, how often getOperationResponse was called
\* call        : the call in progress or last completed, with its result
\* stack       : the invocation of getAllProperties in progress
VARIABLES program, engine, diagnostics, calls, call, stack

vars == <<program, engine, diagnostics, calls, call, stack>>

Model(m) == program.models[m]
ModelIds == DOMAIN program.models
OpIds == DOMAIN program.operations

\* isErrorModel of @typespec/compiler: an annotation kept by the program
isErrorModel(prog, m) == prog.models[m].isError
\* isStatusCode of @typespec/http: an annotation kept by the program
isStatusCode(prog, prop) == prop.statusCode

(* ------------------------- Map<string, ModelProperty> ------------------ *)
\* an insertion-ordered map is a sequence of entries with distinct keys
MapHas(map, key) == \E i \in DOMAIN map : map[i].key = key
MapKeys(map) == {map[i].key : i \in DOMAIN map}
MapValues(map) == [i \in DOMAIN map |-> map[i].value]

\* mutant: set appends an entry even when the key is present
MapSetAppends(map, key, value) == Append(map, [key |-> key, value |-> value])

\* Map.prototype.set: replaces the value of an existing key in place,
\* appends a new key at the end
MapSet(map, key, value) ==
  IF MapHas(map, key)
  THEN [i \in DOMAIN map |->
          IF map[i].key = key THEN [key |-> key, value |-> value] ELSE map[i]]
  ELSE Append(map, [key |-> key, value |-> value])

\* the loop over model.properties.entries() of getAllProperties
RECURSIVE SetEntries(_, _)
SetEntries(properties, outCollection) ==
  IF properties = <<>>
  THEN outCollection
  ELSE SetEntries(Tail(properties),
                  MapSet(outCollection, Head(properties).name, Head(properties)))

\* mutant: the recursion skips a base model that has a base itself
InvocationSkipsBase(model, collection) ==
  LET outCollection == IF collection.defined THEN collection.value ELSE <<>>
      base == Model(model).baseModel
  IN  [out |-> SetEntries(Model(model).properties, outCollection),
       next |-> IF base # NoModel /\ Model(base).baseModel # NoModel
                THEN Model(base).baseModel ELSE base]

\* one invocation of getAllProperties up to its recursive call: the filled
\* accumulator and the model the recursion continues with
Invocation(model, collection) ==
  LET outCollection == IF collection.defined THEN collection.value ELSE <<>>
  IN  [out |-> SetEntries(Model(model).properties, outCollection),
       next |-> Model(model).baseModel]

RECURSIVE getAllProperties(_, _)
getAllProperties(model, collection) ==
  LET inv == Invocation(model, collection)
  IN  IF inv.next # NoModel
      THEN getAllProperties(inv.next, Some(inv.out))
      ELSE inv.out

\* predicates on model properties the callers pass, by name:
\*   (prop) => isStatusCode(program, prop), (prop) => prop.name === "id",
\*   () => true
PropertyPredicates == {"isStatusCode", "isId", "any"}

ApplyPropertyPredicate(predicate, prop) ==
  CASE predicate = "isStatusCode" -> isStatusCode(program, prop)
    [] predicate = "isId" -> prop.name = "id"
    [] OTHER -> TRUE

filterModelProperties(model, predicate) ==
  SelectSeq(MapValues(getAllProperties(model, Undefined)),
            LAMBDA prop : ApplyPropertyPredicate(predicate, prop))

\* predicates on models, as closures [fn, arg]:
\*   notError : (response) => !isErrorModel(program, response)
\*   hasMatch : (model) => filterModelProperties(model, arg).length > 0
\*   any      : () => true
ModelPredicate(fn, arg) == [fn |-> fn, arg |-> arg]

ApplyModelPredicate(predicate, m) ==
  CASE predicate.fn = "notError" -> ~isErrorModel(program, m)
    [] predicate.fn = "hasMatch" ->
         Len(filterModelProperties(m, predicate.arg)) > 0
    [] OTHER -> TRUE

RECURSIVE Concat(_)
Concat(arrays) ==
  IF arrays = <<>> THEN <<>> ELSE Head(arrays) \o Concat(Tail(arrays))

\* mutant: the switch has no case for tuples
TestedTypesNoTuple(type) ==
  CASE type.kind = "Model" -> <<type>>
    [] type.kind = "Union" -> type.members
    [] OTHER -> <<>>

\* the types the switch on response.type.kind tests for one response, in
\* the order it tests them: the type itself, the variants of a union, the
\* values of a tuple, nothing for any other kind
TestedTypes(type) ==
  CASE type.kind = "Model" -> <<type>>
    [] type.kind = "Union" -> type.members
    [] type.kind = "Tuple" -> type.members
    [] OTHER -> <<>>

\* the models one response pushes
ResponseModels(type, predicate) ==
  LET isMatch(t) == t.kind = "Model" /\ ApplyModelPredicate(predicate, t.model)
      matching == SelectSeq(TestedTypes(type), isMatch)
  IN  [i \in DOMAIN matching |-> matching[i].model]

filterResponseModels(operation, predicate) ==
  LET models == Concat([i \in DOMAIN operation.responses |->
                          ResponseModels(operation.responses[i].type, predicate)])
  IN  IF Len(models) > 0 THEN Some(models) ELSE Undefined

\* getHttpOperation of @typespec/http: the resolved operation and the
\* diagnostics of resolving it, both fixed by the program
getHttpOperation(prog, operation) ==
  [httpOperation |-> [responses |-> prog.operations[operation].responses],
   diagnostics |-> prog.operations[operation].diagnostics]

\* mutant: the diagnostics are reported twice
getHttpMetadataReportsTwice(prog, operation, sink) ==
  LET got == getHttpOperation(prog, operation)
  IN  [httpOperation |-> got.httpOperation,
       diagnostics |-> sink \o got.diagnostics \o got.diagnostics]

\* the HttpOperation returned and the sink after program.reportDiagnostics
getHttpMetadata(prog, operation, sink) ==
  LET got == getHttpOperation(prog, operation)
  IN  [httpOperation |-> got.httpOperation,
       diagnostics |-> IF Len(got.diagnostics) > 0
                       THEN sink \o got.diagnostics
                       ELSE sink]

getStatusCodeProperty(prog, model) ==
  LET properties == filterModelProperties(model, "isStatusCode")
  IN  IF Len(properties) > 0 THEN Some(properties[1]) ELSE Undefined

\* the filter of getSuccessResponse on one candidate
IsSuccessCandidate(prog, m) ==
  LET prop == getStatusCodeProperty(prog, m)
  IN  \/ ~prop.defined
      \/ /\ prop.value.type.kind = "String"
         /\ StartsWith(prop.value.type.value, <<"2">>)
      \/ /\ prop.value.type.kind = "Number"
         /\ prop.value.type.num >= 200
         /\ prop.value.type.num < 300

getSuccessResponse(prog, operation) ==
  LET isCandidate(m) == IsSuccessCandidate(prog, m)
      models == filterResponseModels(operation, ModelPredicate("notError", ""))
      candidates == IF models.defined
                    THEN Some(SelectSeq(models.value, isCandidate))
                    ELSE Undefined
  IN  IF ~candidates.defined \/ Len(candidates.value) < 1
      THEN NoModel
      ELSE candidates.value[1]

ExpectedSuccessResponse(operation) ==
  [code |-> "expected-success-response", target |-> operation]

\* mutant: the diagnostic is reported whatever the response
getOperationResponseAlwaysReports(prog, operation, sink) ==
  LET metadata == getHttpMetadata(prog, operation, sink)
      response == getSuccessResponse(prog, metadata.httpOperation)
  IN  [value |-> response,
       diagnostics |-> Append(metadata.diagnostics,
                              ExpectedSuccessResponse(operation))]

\* mutant: once the sink holds a diagnostic no operation is resolved any more
getOperationResponseStopsAfterError(prog, operation, sink) ==
  LET metadata == getHttpMetadata(prog, operation, sink)
      response == IF Len(sink) > 0
                  THEN NoModel
                  ELSE getSuccessResponse(prog, metadata.httpOperation)
  IN  [value |-> response,
       diagnostics |-> IF response = NoModel
                       THEN Append(metadata.diagnostics,
                                   ExpectedSuccessResponse(operation))
                       ELSE metadata.diagnostics]

\* the returned model and the sink after the call
getOperationResponse(prog, operation, sink) ==
  LET metadata == getHttpMetadata(prog, operation, sink)
      response == getSuccessResponse(prog, metadata.httpOperation)
  IN  [value |-> response,
       diagnostics |-> IF response = NoModel
                       THEN Append(metadata.diagnostics,
                                   ExpectedSuccessResponse(operation))
                       ELSE metadata.diagnostics]

\* the returned pair and the sink after the call
getResultModelWithProperty(prog, operation, predicate, sink) ==
  LET metadata == getHttpMetadata(prog, operation, sink)
      models == filterResponseModels(metadata.httpOperation,
                                     ModelPredicate("hasMatch", predicate))
      properties == SelectSeq(Model(models.value[1]).properties,
                              LAMBDA prop : ApplyPropertyPredicate(predicate, prop))
  IN  [value |-> IF ~models.defined \/ Len(models.value) < 1
                 THEN Undefined
                 ELSE IF Len(properties) < 1
                 THEN Undefined
                 ELSE Some(<<models.value[1], properties[1]>>),
       diagnostics |-> metadata.diagnostics]

(* ------------------------------ callers -------------------------------- *)
\* predicates the callers pass to filterResponseModels
ModelPredicates ==
  { ModelPredicate("notError", ""), ModelPredicate("hasMatch", "isStatusCode"),
    ModelPredicate("any", "") }

(* ------------------------------ programs ------------------------------- *)
PlainType == [kind |-> "Scalar", value |-> <<>>, num |-> 0]

StatusLiterals ==
  { StringLit(<<"2", "0", "0">>), StringLit(<<"4", "0", "4">>),
    NumberLit(199), NumberLit(200), NumberLit(299), NumberLit(300),
    OtherType }

ModelRecord(properties, baseModel, isError) ==
  [properties |-> properties, baseModel |-> baseModel, isError |-> isError]

OperationRecord(responses, diags) ==
  [responses |-> [i \in DOMAIN responses |-> [type |-> responses[i]]],
   diagnostics |-> diags]

PlainProperties(m, names) ==
  [i \in DOMAIN names |-> ModelProperty(m, names[i], PlainType, FALSE)]

PlainLayouts ==
  { <<>>, <<"id">>, <<"name">>, <<"id", "name">>, <<"name", "id">> }

\* a chain of models 1 -> 2 -> ... -> last, the last one extending `back`,
\* each declaring and redeclaring plain properties; no operation
Chain(layout, back) ==
  [models |-> [m \in DOMAIN layout |->
                 ModelRecord(PlainProperties(m, layout[m]),
                             IF m < Len(layout) THEN m + 1 ELSE back, FALSE)],
   operations |-> <<>>]

ChainLayouts == UNION { [1..n -> PlainLayouts] : n \in 1..NumModels }

\* the acyclic chains the compiler builds
ChainPrograms == { Chain(layout, NoModel) : layout \in ChainLayouts }

\* chains that close a cycle through two or more models, which the compiler
\* is meant never to build
CyclicPrograms ==
  UNION { { Chain(layout, back) : back \in 1..(Len(layout) - 1) } :
            layout \in ChainLayouts }

StatusProperty(m, name, decl) ==
  IF decl.defined THEN <<ModelProperty(m, name, decl.value, TRUE)>> ELSE <<>>

StatusDecls == {Undefined} \cup {Some(t) : t \in StatusLiterals}
BaseStatusDecls ==
  {Undefined, Some(NumberLit(200)), Some(StringLit(<<"4", "0", "4">>))}

\* one operation over models 1 and 2, which declare status code properties
\* of every literal shape, model 1 extending model 2 or not
StatusPrograms ==
  { [models |-> [m \in 1..NumModels |->
        CASE m = 1 -> ModelRecord(PlainProperties(1, <<"id">>)
                                    \o StatusProperty(1, "code", d1),
                                  b1, 1 \in err)
          [] m = 2 -> ModelRecord(StatusProperty(2, n2, d2)
                                    \o PlainProperties(2, <<"name">>),
                                  NoModel, 2 \in err)
          [] OTHER -> ModelRecord(PlainProperties(m, <<"id">>), NoModel, FALSE)],
     operations |-> <<OperationRecord(<<ModelType(1), ModelType(2)>>, <<>>)>>] :
      d1 \in StatusDecls, d2 \in BaseStatusDecls, n2 \in {"code", "status"},
      b1 \in {NoModel, 2}, err \in SUBSET {1, 2} }

\* model 1 a 200 response, model 2 an error response, the others plain
ShapeModels ==
  [m \in 1..NumModels |->
     CASE m = 1 -> ModelRecord(StatusProperty(1, "code", Some(NumberLit(200))),
                               NoModel, FALSE)
       [] m = 2 -> ModelRecord(
                     StatusProperty(2, "code", Some(StringLit(<<"4", "0", "4">>))),
                     NoModel, TRUE)
       [] OTHER -> ModelRecord(PlainProperties(m, <<"id">>), NoModel, FALSE)]

MemberTypes == {ScalarType, ModelType(1), ModelType(2)}

ResponseTypes ==
  {ModelType(m) : m \in 1..NumModels} \cup {ScalarType}
    \cup {UnionType(<<x, y>>) : x \in MemberTypes, y \in MemberTypes}
    \cup {TupleType(<<x, y>>) : x \in MemberTypes, y \in MemberTypes}

\* one operation with up to two responses of every shape
ShapePrograms ==
  { [models |-> ShapeModels, operations |-> <<OperationRecord(responses, <<>>)>>] :
      responses \in {<<>>} \cup {<<r>> : r \in ResponseTypes}
                    \cup {<<q, r>> : q \in ResponseTypes, r \in ResponseTypes} }

HttpDiagnostic(operation) == [code |-> "http-diagnostic", target |-> operation]

\* a batch of two operations, each with or without a success response, each
\* resolving its HTTP metadata with or without a diagnostic
BatchPrograms ==
  { [models |-> ShapeModels,
     operations |-> << OperationRecord(<<ModelType(r1)>>, g1),
                       OperationRecord(<<ModelType(r2)>>, g2) >>] :
      r1 \in {1, 2}, r2 \in {1, 2},
      g1 \in {<<>>, <<HttpDiagnostic(1)>>}, g2 \in {<<>>, <<HttpDiagnostic(2)>>} }

Programs == ChainPrograms \cup StatusPrograms \cup ShapePrograms \cup BatchPrograms

(* ------------------------------ state ---------------------------------- *)
\* V8 (Node.js) keeps a frame per tail call; JavaScriptCore reuses the frame
Engines == {"v8", "jsc"}

NoCall ==
  [fn |-> "none", arg |-> 0, pred |-> "", status |-> "none",
   ret |-> Undefined, prev |-> Undefined, trace |-> <<>>]

NoStack ==
  [active |-> FALSE, model |-> NoModel, collection |-> Undefined,
   depth |-> 0, visited |-> <<>>]

Completed(fn, arg, pred, ret) ==
  [fn |-> fn, arg |-> arg, pred |-> pred, status |-> "returned",
   ret |-> ret, prev |-> Undefined, trace |-> <<>>]

Init ==
  /\ program \in Programs
  /\ engine \in Engines
  /\ diagnostics = <<>>
  /\ calls = [o \in DOMAIN program.operations |-> 0]
  /\ call = NoCall
  /\ stack = NoStack

(* ------------------------------ actions -------------------------------- *)
\* a caller invokes getAllProperties(model) without a collection
FlattenCall(m) ==
  /\ ~stack.active
  /\ call' = [fn |-> "getAllProperties", arg |-> m, pred |-> "",
              status |-> "running", ret |-> Undefined,
              prev |-> IF call.fn = "getAllProperties" /\ call.arg = m
                          /\ call.status = "returned"
                       THEN call.ret ELSE Undefined,
              trace |-> <<>>]
  /\ stack' = [active |-> TRUE, model |-> m, collection |-> Undefined,
               depth |-> 1, visited |-> <<>>]
  /\ UNCHANGED <<program, engine, diagnostics, calls>>

\* the models processed so far, followed up to StackLimit + 1 entries
Visit(visited, m) ==
  IF Len(visited) <= StackLimit THEN Append(visited, m) ELSE visited

\* one invocation of getAllProperties runs: it fills the collection, then
\* returns it or calls itself on the base model
FlattenFrame ==
  /\ stack.active
  /\ LET inv == Invocation(stack.model, stack.collection)
         seen == Visit(stack.visited, stack.model)
     IN  IF inv.next = NoModel
         THEN /\ call' = [call EXCEPT !.status = "returned",
                                      !.ret = Some(inv.out), !.trace = seen]
              /\ stack' = NoStack
         ELSE IF engine = "v8" /\ stack.depth >= StackLimit
         THEN \* RangeError: Maximum call stack size exceeded
              /\ call' = [call EXCEPT !.status = "thrown", !.trace = seen]
              /\ stack' = NoStack
         ELSE /\ stack' = [active |-> TRUE, model |-> inv.next,
                           collection |-> Some(inv.out),
                           depth |-> IF engine = "v8"
                                     THEN stack.depth + 1 ELSE stack.depth,
                           visited |-> seen]
              /\ UNCHANGED call
  /\ UNCHANGED <<program, engine, diagnostics, calls>>

CallFilterResponseModels(o, predicate) ==
  /\ ~stack.active
  /\ call' = Completed("filterResponseModels", o, predicate,
                filterResponseModels(getHttpOperation(program, o).httpOperation,
                                     predicate))
  /\ UNCHANGED <<program, engine, diagnostics, calls, stack>>

CallGetHttpMetadata(o) ==
  /\ ~stack.active
  /\ LET got == getHttpMetadata(program, o, diagnostics)
     IN  /\ Len(got.diagnostics) <= MaxDiagnostics
         /\ diagnostics' = got.diagnostics
         /\ call' = Completed("getHttpMetadata", o, "", got.httpOperation)
  /\ UNCHANGED <<program, engine, calls, stack>>

CallGetSuccessResponse(o) ==
  /\ ~stack.active
  /\ call' = Completed("getSuccessResponse", o, "",
                getSuccessResponse(program,
                                   getHttpOperation(program, o).httpOperation))
  /\ UNCHANGED <<program, engine, diagnostics, calls, stack>>

CallGetResultModelWithProperty(o, predicate) ==
  /\ ~stack.active
  /\ LET got == getResultModelWithProperty(program, o, predicate, diagnostics)
     IN  /\ Len(got.diagnostics) <= MaxDiagnostics
         /\ diagnostics' = got.diagnostics
         /\ call' = Completed("getResultModelWithProperty", o, predicate, got.value)
  /\ UNCHANGED <<program, engine, calls, stack>>

CallGetOperationResponse(o) ==
  /\ ~stack.active
  /\ calls[o] < MaxCalls
  /\ LET got == getOperationResponse(program, o, diagnostics)
     IN  /\ Len(got.diagnostics) <= MaxDiagnostics
         /\ diagnostics' = got.diagnostics
         /\ call' = Completed("getOperationResponse", o, "", got.value)
  /\ calls' = [calls EXCEPT ![o] = @ + 1]
  /\ UNCHANGED <<program, engine, stack>>

Next ==
  \/ \E m \in ModelIds : FlattenCall(m)
  \/ FlattenFrame
  \/ \E o \in OpIds, predicate \in ModelPredicates :
       CallFilterResponseModels(o, predicate)
  \/ \E o \in OpIds : CallGetHttpMetadata(o)
  \/ \E o \in OpIds : CallGetSuccessResponse(o)
  \/ \E o \in OpIds, predicate \in PropertyPredicates :
       CallGetResultModelWithProperty(o, predicate)
  \/ \E o \in OpIds : CallGetOperationResponse(o)

Spec == Init /\ [][Next]_vars

\* getAllProperties on a type graph that breaks the acyclicity guarantee, on
\* either engine; a synchronous call that has started keeps running
InitCyc ==
  /\ program \in CyclicPrograms
  /\ engine \in Engines
  /\ diagnostics = <<>>
  /\ calls = <<>>
  /\ call = NoCall
  /\ stack = NoStack

NextCyc ==
  \/ \E m \in ModelIds : FlattenCall(m)
  \/ FlattenFrame

SpecCyc == InitCyc /\ [][NextCyc]_vars /\ WF_vars(FlattenFrame)

(* =============================== claims =============================== *)
\* the inheritance chain of a model, leaf first (acyclic type graphs)
RECURSIVE InheritanceChain(_)
InheritanceChain(m) ==
  IF Model(m).baseModel = NoModel
  THEN <<m>>
  ELSE <<m>> \o InheritanceChain(Model(m).baseModel)

Declares(m, name) ==
  \E i \in DOMAIN Model(m).properties : Model(m).properties[i].name = name

DeclaredNames(m) ==
  {Model(m).properties[i].name : i \in DOMAIN Model(m).properties}

\* the most-derived model of the chain of `m` that declares `name`
MostDerivedDeclarer(m, name) ==
  LET chain == InheritanceChain(m)
      first == CHOOSE i \in DOMAIN chain :
                 /\ Declares(chain[i], name)
                 /\ \A j \in 1..(i - 1) : ~Declares(chain[j], name)
  IN  chain[first]

\* the fields of a model as the specification flattens them: the chain is
\* walked leaf to base and a name already present is never overwritten
FlattenedFields(m) ==
  LET chain == InheritanceChain(m)
      added(i) == SelectSeq(Model(chain[i]).properties,
                    LAMBDA prop : \A j \in 1..(i - 1) : ~Declares(chain[j], prop.name))
  IN  Concat([i \in DOMAIN chain |-> added(i)])

FlattenReturned == call.fn = "getAllProperties" /\ call.status = "returned"

\* C1: the map getAllProperties returns for a model maps every name to the
\* declaration of the most-derived model of the chain that declares it; a
\* base model's declaration never replaces a more-derived one.
C1_DerivedDeclarationWins ==
  FlattenReturned =>
    \A i \in DOMAIN call.ret.value :
      call.ret.value[i].value.model
        = MostDerivedDeclarer(call.arg, call.ret.value[i].key)

\* C8: the keys of the map getAllProperties returns are the names declared
\* on the model and on every ancestor, each exactly once; the call never
\* fails, and a model with no base and no properties yields the empty map.
C8_FlattenKeySet ==
  /\ call.fn = "getAllProperties" => call.status # "thrown"
  /\ FlattenReturned =>
       LET map == call.ret.value
           chain == InheritanceChain(call.arg)
       IN  /\ MapKeys(map) = UNION {DeclaredNames(chain[i]) : i \in DOMAIN chain}
           /\ \A i, j \in DOMAIN map : map[i].key = map[j].key => i = j
           /\ (Len(chain) = 1 /\ Model(call.arg).properties = <<>>) => map = <<>>

\* C8 witness: a returned map of a chain of two or more models in which one
\* name is declared on two levels and another only on an ancestor.
C8_Witness ==
  /\ FlattenReturned
  /\ Len(call.trace) >= 2
  /\ \E n \in DeclaredNames(call.arg) : Declares(call.trace[2], n)
  /\ \E n \in DeclaredNames(call.trace[2]) : ~Declares(call.arg, n)

\* C10: on an acyclic chain of depth N getAllProperties processes the leaf
\* and each ancestor exactly once, in leaf-to-base order, and returns after
\* exactly N models; a second call on the same model returns the same
\* ordered map as the first.
C10_AcyclicSafety ==
  /\ stack.active =>
       LET chain == InheritanceChain(call.arg)
       IN  /\ Len(stack.visited) < Len(chain)
           /\ stack.visited = SubSeq(chain, 1, Len(stack.visited))
           /\ stack.model = chain[Len(stack.visited) + 1]
  /\ FlattenReturned =>
       /\ call.trace = InheritanceChain(call.arg)
       /\ \A i, j \in DOMAIN call.trace : call.trace[i] = call.trace[j] => i = j
       /\ call.prev.defined => call.ret = call.prev

\* C10 witness: the second of two calls on the leaf of a chain of NumModels
\* models has returned.
C10_Witness ==
  /\ FlattenReturned
  /\ Len(call.trace) = NumModels
  /\ call.prev.defined
  /\ Len(call.ret.value) >= 2

(* ---- responses ---- *)
\* the object types among `members` that satisfy the predicate, in order
RECURSIVE MatchingMembers(_, _)
MatchingMembers(members, predicate) ==
  IF members = <<>>
  THEN <<>>
  ELSE (IF Head(members).kind = "Model"
           /\ ApplyModelPredicate(predicate, Head(members).model)
        THEN <<Head(members).model>> ELSE <<>>)
       \o MatchingMembers(Tail(members), predicate)

\* the walk the specification describes: responses in declared order, the
\* body itself, the variants of a union, the elements of a tuple
RECURSIVE Normalized(_, _)
Normalized(responses, predicate) ==
  IF responses = <<>>
  THEN <<>>
  ELSE LET body == Head(responses).type
       IN  (IF body.kind = "Model"
            THEN MatchingMembers(<<body>>, predicate)
            ELSE IF body.kind \in {"Union", "Tuple"}
            THEN MatchingMembers(body.members, predicate)
            ELSE <<>>)
           \o Normalized(Tail(responses), predicate)

Responses(o) == program.operations[o].responses

\* C5: filterResponseModels returns the object types that satisfy the
\* predicate in declaration order across responses and within unions and
\* tuples, skipping every other type, and `undefined`, never an empty array,
\* when nothing matched.
C5_Normalize ==
  call.fn = "filterResponseModels" =>
    LET expected == Normalized(Responses(call.arg), call.pred)
    IN  IF expected = <<>>
        THEN ~call.ret.defined
        ELSE call.ret.defined /\ call.ret.value = expected

\* C5 witness: a tuple with a scalar, then a union with an error model; the
\* non-error models come back in order.
C5_Witness ==
  /\ call.fn = "filterResponseModels"
  /\ call.pred = ModelPredicate("notError", "")
  /\ Len(Responses(call.arg)) = 2
  /\ Responses(call.arg)[1].type = TupleType(<<ScalarType, ModelType(1)>>)
  /\ Responses(call.arg)[2].type = UnionType(<<ModelType(2), ModelType(1)>>)
  /\ call.ret.defined
  /\ call.ret.value = <<1, 1>>

(* ---- success classification ---- *)
\* the status-code-tagged fields among `fields`
StatusCodeFields(fields) ==
  SelectSeq(fields, LAMBDA prop : isStatusCode(program, prop))

\* a non-error type with no status code field among `fields`, or one whose
\* literal is a string beginning with "2" or a number in [200, 300)
IsSuccessType(m, fields) ==
  /\ ~isErrorModel(program, m)
  /\ \/ StatusCodeFields(fields) = <<>>
     \/ LET type == StatusCodeFields(fields)[1].type
        IN  \/ type.kind = "String" /\ type.value # <<>> /\ type.value[1] = "2"
            \/ type.kind = "Number" /\ type.num \in 200..299

\* every object type of the responses of an operation, in declaration order
ResponseObjectTypes(o) == Normalized(Responses(o), ModelPredicate("any", ""))

\* the first element of `models` that is a success type, or NoModel
FirstWhere(models, ok) ==
  IF \E i \in DOMAIN models : ok[i]
  THEN models[CHOOSE i \in DOMAIN models : ok[i] /\ \A j \in 1..(i - 1) : ~ok[j]]
  ELSE NoModel

\* C3: getSuccessResponse returns the first object type in declaration
\* order that is no error type and has, among its flattened fields, no
\* status code field, or a status code that is a string beginning with "2"
\* or a number in [200, 300), and `undefined` exactly when there is none.
C3_SuccessBody ==
  call.fn = "getSuccessResponse" =>
    LET models == ResponseObjectTypes(call.arg)
    IN  call.ret = FirstWhere(models,
                     [i \in DOMAIN models |->
                        IsSuccessType(models[i], FlattenedFields(models[i]))])

\* The classification of C3 over the fields of the map getAllProperties
\* returns, in which a base model's declaration has replaced a redeclared
\* one: with these fields the rule of C3 describes getSuccessResponse.
SuccessBodyOverReturnedMap ==
  call.fn = "getSuccessResponse" =>
    LET models == ResponseObjectTypes(call.arg)
    IN  call.ret = FirstWhere(models,
                     [i \in DOMAIN models |->
                        IsSuccessType(models[i],
                          MapValues(getAllProperties(models[i], Undefined)))])

\* the status-code-tagged fields a model declares itself
OwnStatusCodeFields(m) == StatusCodeFields(Model(m).properties)

\* a non-error type whose own status code field is a redeclaration: an
\* ancestor declares a status-code-tagged field of the same name with a
\* different literal
RedeclaresStatusCode(m) ==
  /\ ~isErrorModel(program, m)
  /\ OwnStatusCodeFields(m) # <<>>
  /\ StatusCodeFields(FlattenedFields(m))[1] = OwnStatusCodeFields(m)[1]
  /\ \E a \in ModelIds \ {m} :
       /\ \E i \in DOMAIN InheritanceChain(m) : InheritanceChain(m)[i] = a
       /\ \E j \in DOMAIN Model(a).properties :
            LET prop == Model(a).properties[j]
            IN  /\ isStatusCode(program, prop)
                /\ prop.name = OwnStatusCodeFields(m)[1].name
                /\ prop.type # OwnStatusCodeFields(m)[1].type

\* C11: a non-error type that redeclares a status code field of an ancestor
\* with a different literal is classified by the literal of its own
\* declaration: as the first response of an operation it is the result of
\* getSuccessResponse exactly when its own literal is a string beginning
\* with "2" or a number in [200, 300).
C11_OwnStatusLiteralClassifies ==
  call.fn = "getSuccessResponse" =>
    LET models == ResponseObjectTypes(call.arg)
    IN  (models # <<>> /\ RedeclaresStatusCode(models[1])) =>
          (call.ret = models[1]
             <=> IsSuccessType(models[1], Model(models[1]).properties))

(* ---- the diagnostic boundary ---- *)
IsExpectedSuccess(d) == d.code = "expected-success-response"

CountExpectedSuccess(sink, o) ==
  Cardinality({i \in DOMAIN sink : sink[i] = ExpectedSuccessResponse(o)})

SuccessBody(o) ==
  getSuccessResponse(program, getHttpOperation(program, o).httpOperation)

\* C4: one call of getOperationResponse appends exactly one
\* expected-success-response diagnostic, targeting the operation, when the
\* operation has no success response and none when it has one; it returns
\* normally, with the result of getSuccessResponse.
C4_RequireSuccessBody ==
  [][\A o \in OpIds :
       calls'[o] # calls[o] =>
         LET added == SubSeq(diagnostics', Len(diagnostics) + 1, Len(diagnostics'))
         IN  /\ SubSeq(diagnostics', 1, Len(diagnostics)) = diagnostics
             /\ Cardinality({i \in DOMAIN added : IsExpectedSuccess(added[i])})
                  = IF SuccessBody(o) = NoModel THEN 1 ELSE 0
             /\ \A i \in DOMAIN added :
                  IsExpectedSuccess(added[i]) => added[i].target = o
             /\ call'.fn = "getOperationResponse"
             /\ call'.status = "returned"
             /\ call'.ret = SuccessBody(o)]_vars

\* C4 witness: getOperationResponse returned `undefined` and the sink holds
\* the one diagnostic it reported.
C4_Witness ==
  /\ call.fn = "getOperationResponse"
  /\ call.ret = NoModel
  /\ diagnostics = <<ExpectedSuccessResponse(call.arg)>>

\* C9: however the calls of getOperationResponse for the operations of a
\* batch are ordered, each returns what it returns alone, and the sink holds
\* one expected-success-response diagnostic per call for an operation
\* without a success response and none for the others.
C9_BatchIndependence ==
  /\ \A o \in OpIds :
       CountExpectedSuccess(diagnostics, o)
         = IF SuccessBody(o) = NoModel THEN calls[o] ELSE 0
  /\ \A i \in DOMAIN diagnostics :
       IsExpectedSuccess(diagnostics[i]) => diagnostics[i].target \in OpIds
  /\ call.fn = "getOperationResponse" =>
       call.status = "returned" /\ call.ret = SuccessBody(call.arg)

\* C9 witness: operation 1 has no success response and was resolved first;
\* operation 2 was resolved after it and returned its success response.
C9_Witness ==
  /\ Len(program.operations) = 2
  /\ \A o \in OpIds : calls[o] = 1
  /\ diagnostics = <<ExpectedSuccessResponse(1)>>
  /\ call.fn = "getOperationResponse"
  /\ call.arg = 2
  /\ call.ret # NoModel

PureCalls == {"getAllProperties", "filterResponseModels", "getSuccessResponse"}

\* C6 as stated: getAllProperties, filterResponseModels, getSuccessResponse
\* and getResultModelWithProperty leave the sink and the type graph as they
\* are.
C6_OnlyBoundaryReports ==
  [][call'.fn \in PureCalls \cup {"getResultModelWithProperty"} =>
       diagnostics' = diagnostics /\ program' = program]_vars

\* C6 as amended: getAllProperties, filterResponseModels and
\* getSuccessResponse leave the sink unchanged; getResultModelWithProperty
\* appends exactly the diagnostics of resolving the HTTP metadata of its
\* operation; only getOperationResponse appends an
\* expected-success-response diagnostic; no call changes the type graph.
C6_BoundaryReports ==
  [][/\ program' = program
     /\ call'.fn \in PureCalls => diagnostics' = diagnostics
     /\ call'.fn = "getResultModelWithProperty" =>
          diagnostics'
            = diagnostics \o getHttpOperation(program, call'.arg).diagnostics
     /\ (\E o \in OpIds : CountExpectedSuccess(diagnostics', o)
                             # CountExpectedSuccess(diagnostics, o))
          => call'.fn = "getOperationResponse"]_vars

\* C6 witness: getResultModelWithProperty has appended the diagnostic of its
\* operation's HTTP metadata to an empty sink.
C6_Witness ==
  /\ call.fn = "getResultModelWithProperty"
  /\ diagnostics = <<HttpDiagnostic(call.arg)>>

(* ---- field search ---- *)
\* the flattened fields of a model that satisfy the predicate, in the
\* insertion order of the flattened map
MatchingFields(m, predicate) ==
  SelectSeq(FlattenedFields(m),
            LAMBDA prop : ApplyPropertyPredicate(predicate, prop))

\* C2: getResultModelWithProperty returns the first object type in
\* declaration order whose flattened fields hold a field satisfying the
\* predicate, with the first such field of its flattened map, inherited
\* fields included, and `undefined` only when no object type has one.
C2_FindFieldAcrossResponses ==
  call.fn = "getResultModelWithProperty" =>
    LET models == ResponseObjectTypes(call.arg)
        hits == {i \in DOMAIN models : MatchingFields(models[i], call.pred) # <<>>}
    IN  IF hits = {}
        THEN ~call.ret.defined
        ELSE LET first == CHOOSE i \in hits : \A j \in hits : i <= j
             IN  /\ call.ret.defined
                 /\ call.ret.value
                      = <<models[first], MatchingFields(models[first], call.pred)[1]>>

(* ---- malformed type graphs ---- *)
\* C7: on a cyclic inheritance chain a call of getAllProperties ends in a
\* fatal error, instead of running forever or returning a result.
C7_CycleIsFatal == (call.status = "running") ~> (call.status = "thrown")

====
